---- MODULE Spec2Model ----
(***************************************************************************)
(* Model of the clip-flattening export of cmyk-splitter: clipSVGPaths and  *)
(* its caller exportCurrentSVG.  The SVG tree is a sequence of element     *)
(* records in document order; attribute values are character sequences so  *)
(* that the url(#id) pattern match is computed, not assumed.               *)
(* A second specification, ControlsSpec, models the controls of the page:  *)
(* the parameters, the start-up load, uploads, reprocess and the responses *)
(* of their requests (frontend/cmyk-controls.js, frontend/api-client.js).  *)
(***************************************************************************)
EXTENDS Integers, Sequences, FiniteSets, TLC

\* ------------------------------------------------------------------------
\* Bounds of the model
\* ------------------------------------------------------------------------
\* Side of the coordinate grid, in units of 5 user units: corners 0..Grid.
Grid == 3
\* Number of clipSVGPaths invocations explored in one behaviour.
MaxInvocations == 2
\* Number of asynchronous operations of the controls (the start-up load, the
\* uploads and the reprocess actions) explored in one behaviour.
MaxTasks == 3
\* Number of slider changes explored in one behaviour.
MaxEdits == 1

\* ------------------------------------------------------------------------
\* Attribute values
\* ------------------------------------------------------------------------
\* An attribute is <<>> when absent (getAttribute gives null) and <<v>> when
\* present with value v; a reference or id value v is a sequence of characters.
Absent == <<>>
Attr(v) == <<v>>

UrlC == <<"u", "r", "l", "(", "#", "c", ")">>
UrlM == <<"u", "r", "l", "(", "#", "m", ")">>
UrlX == <<"u", "r", "l", "(", "#", "x", ")">>
NoneValue == <<"n", "o", "n", "e">>
EmptyValue == <<>>

\* JavaScript truthiness of a getAttribute result: null and "" are falsy.
\* Reference values are character sequences, style values are strings.
Truthy(a) == a # Absent /\ a[1] # <<>>
TruthyStyle(a) == a # Absent /\ a[1] # ""

\* The mask attribute consulted before the clip-path attribute.
MaskFirst(a, b) == IF Truthy(b) THEN b ELSE a

\* a || b on two getAttribute results.
OrElse(a, b) == IF Truthy(a) THEN a ELSE b

\* str.match(/\#(.+?)\)/): the leftmost '#' that is followed by one or more
\* characters and then ')'; the group is the shortest such run.  The result
\* is <<>> for null (no match) and <<id>> for the captured group.
CloseAfter(s, i) == {j \in (i + 2)..Len(s) : s[j] = ")"}
HashStarts(s) == {i \in 1..Len(s) : s[i] = "#" /\ CloseAfter(s, i) # {}}
Min(S) == CHOOSE m \in S : \A n \in S : m <= n
MatchId(s) ==
  IF HashStarts(s) = {} THEN <<>>
  ELSE LET i == Min(HashStarts(s))
           j == Min(CloseAfter(s, i))
       IN <<SubSeq(s, i + 1, j - 1)>>

\* ------------------------------------------------------------------------
\* Path geometry (Paper.js).  Path data is a sequence of closed rectangular
\* subpaths <<x0, y0, x1, y1>>; the geometry of a path is the set of grid
\* cells it covers; pathData writes one unit subpath per covered cell.
\* ------------------------------------------------------------------------
Rect(x0, y0, x1, y1) == <<x0, y0, x1, y1>>
CellsOf(r) == {<<x, y>> : x \in r[1]..(r[3] - 1), y \in r[2]..(r[4] - 1)}

\* new paper.Path(pathDataString)
PaperPath(data) == UNION {CellsOf(data[k]) : k \in 1..Len(data)}

\* Boolean operations other than the intersection: unite, the clip geometry
\* returned whatever the content is, and subtract.
IntersectAsUnion(path, clipPath) == path \cup clipPath
IntersectAsClip(path, clipPath) == clipPath
IntersectAsSubtract(path, clipPath) == path \ clipPath

\* path.intersect(clipPath, { trace: false })
Intersect(path, clipPath) == path \cap clipPath

CellCode(c) == c[2] * (Grid + 1) + c[1]
RECURSIVE SortCells(_)
SortCells(S) ==
  IF S = {} THEN <<>>
  ELSE LET c == CHOOSE a \in S : \A b \in S : CellCode(a) <= CellCode(b)
       IN <<Rect(c[1], c[2], c[1] + 1, c[2] + 1)>> \o SortCells(S \ {c})

\* A serialisation that writes the first subpath and drops the others.
FirstSubpathData(path) == SubSeq(SortCells(path), 1, 1)

\* path.pathData
PathData(path) == SortCells(path)

\* [...].join(' ') over getAttribute('d') results: null joins as "".
RECURSIVE JoinD(_)
JoinD(ds) ==
  IF ds = <<>> THEN <<>>
  ELSE (IF Head(ds) = Absent THEN <<>> ELSE Head(ds)[1]) \o JoinD(Tail(ds))

\* ------------------------------------------------------------------------
\* The element tree
\* ------------------------------------------------------------------------
\* Element k of a tree is the k-th element in document order; parent = 0 for
\* the root and for an element that has been removed from its parent.
Element(tag, parent, id, clip, mask, d, fill) ==
  [tag |-> tag, parent |-> parent, id |-> id, clip |-> clip, mask |-> mask,
   d |-> d, fill |-> fill, stroke |-> Absent, sw |-> Absent,
   clipped |-> FALSE]

RECURSIVE Ancestors(_, _)
Ancestors(t, n) ==
  IF t[n].parent = 0 THEN {}
  ELSE {t[n].parent} \cup Ancestors(t, t[n].parent)

\* e.querySelectorAll(sel): the descendants of e that satisfy sel, as the
\* set of their positions; document order is the order of positions.
Descendants(t, e) == {n \in 1..Len(t) : e \in Ancestors(t, n)}

RECURSIVE SetToSeq(_)
SetToSeq(S) ==
  IF S = {} THEN <<>>
  ELSE LET m == Min(S) IN <<m>> \o SetToSeq(S \ {m})

PathsIn(t, e) == SetToSeq({n \in Descendants(t, e) : t[n].tag = "path"})

HasClipAttr(el) == el.clip # Absent \/ el.mask # Absent

\* A selector that forgets the [mask] alternative.
QueryClipPathOnly(t) ==
  SetToSeq({n \in Descendants(t, 1) : t[n].clip # Absent})

\* svgElement.querySelectorAll('[clip-path], [mask]')
QueryClipElements(t) == SetToSeq({n \in Descendants(t, 1) : HasClipAttr(t[n])})

\* ------------------------------------------------------------------------
\* Documents the export is run on
\* ------------------------------------------------------------------------
Ids == {<<"c">>, <<"m">>, <<"x">>}

Ref(clip, mask) == [clip |-> clip, mask |-> mask]

\* clip-path / mask attribute pairs an authored element may carry.
RefChoices ==
  { Ref(Absent, Absent),
    Ref(Attr(UrlC), Absent),
    Ref(Attr(UrlM), Absent),
    Ref(Absent, Attr(UrlC)),
    Ref(Attr(UrlX), Absent),
    Ref(Attr(NoneValue), Absent),
    Ref(Attr(EmptyValue), Absent),
    Ref(Attr(EmptyValue), Attr(UrlC)),
    Ref(Attr(UrlC), Attr(UrlM)) }

ClipSquare == <<Rect(0, 0, 2, 2)>>
MaskSquare == <<Rect(1, 1, 3, 3)>>
ContentSquare == <<Rect(1, 1, 3, 3)>>
FarSquare == <<Rect(2, 2, 3, 3)>>
ContentChoices == {ContentSquare, FarSquare}
FillChoices == {Absent, Attr("#FFF"), Attr("red")}

\* <svg><defs><clipPath id="c"><path d=dc/></clipPath></defs>
\*      <path clip-path=... d=d/></svg>
PathDocument(rootRef, ref, dc, d, fill) ==
  << Element("svg", 0, Absent, rootRef.clip, rootRef.mask, Absent, Absent),
     Element("defs", 1, Absent, Absent, Absent, Absent, Absent),
     Element("clipPath", 2, Attr(<<"c">>), Absent, Absent, Absent, Absent),
     Element("path", 3, Absent, Absent, Absent, Attr(dc), Absent),
     Element("path", 1, Absent, ref.clip, ref.mask, Attr(d), fill) >>

\* <svg><defs><clipPath id="c">..</clipPath><mask id="m">..</mask></defs>
\*      <g ref1><path d1/></g> <g ref2><path d2/></g></svg>, the second group
\* a child of the root (nest = 1) or of the first group (nest = 7).
GroupDocument(ref1, ref2, nest, dc, d1, fill1) ==
  << Element("svg", 0, Absent, Absent, Absent, Absent, Absent),
     Element("defs", 1, Absent, Absent, Absent, Absent, Absent),
     Element("clipPath", 2, Attr(<<"c">>), Absent, Absent, Absent, Absent),
     Element("path", 3, Absent, Absent, Absent, Attr(dc), Absent),
     Element("mask", 2, Attr(<<"m">>), Absent, Absent, Absent, Absent),
     Element("path", 5, Absent, Absent, Absent, Attr(MaskSquare), Absent),
     Element("g", 1, Absent, ref1.clip, ref1.mask, Absent, Absent),
     Element("path", 7, Absent, Absent, Absent, Attr(d1), fill1),
     Element("g", nest, Absent, ref2.clip, ref2.mask, Absent, Absent),
     Element("path", 9, Absent, Absent, Absent, Attr(ContentSquare), Absent) >>

PathDocuments ==
  { PathDocument(rootRef, ref, ClipSquare, d, fill) :
      rootRef \in {Ref(Absent, Absent), Ref(Attr(UrlC), Absent)},
      ref \in RefChoices, d \in ContentChoices, fill \in FillChoices }

GroupDocuments ==
  { GroupDocument(ref1, ref2, nest, ClipSquare, d1, fill1) :
      ref1 \in RefChoices, ref2 \in RefChoices, nest \in {1, 7},
      d1 \in ContentChoices, fill1 \in FillChoices }

\* fill, stroke and stroke-width attributes of an authored element.
Style(fill, stroke, sw) == [fill |-> fill, stroke |-> stroke, sw |-> sw]
Styled(el, style) ==
  [el EXCEPT !.fill = style.fill, !.stroke = style.stroke, !.sw = style.sw]
StyleChoices ==
  { Style(Absent, Absent, Absent),
    Style(Attr("red"), Attr("blue"), Attr("2")),
    Style(Attr(""), Attr("blue"), Absent) }

\* <svg><g/> <defs/> <defs><clipPath id="c"><path d=dc/></clipPath></defs>
\*      <g ref style><path d style/></g></svg>; the first <defs> is a child
\* of the root (defsParent = 1) or of the leading group (defsParent = 2), the
\* content path a child of the last group (pathParent = 7) or of the root.
LayerDocument(defsParent, ref, dc, d, gStyle, pStyle, pathParent) ==
  << Element("svg", 0, Absent, Absent, Absent, Absent, Absent),
     Element("g", 1, Absent, Absent, Absent, Absent, Absent),
     Element("defs", defsParent, Absent, Absent, Absent, Absent, Absent),
     Element("defs", 1, Absent, Absent, Absent, Absent, Absent),
     Element("clipPath", 4, Attr(<<"c">>), Absent, Absent, Absent, Absent),
     Element("path", 5, Absent, Absent, Absent, Attr(dc), Absent),
     Styled(Element("g", 1, Absent, ref.clip, ref.mask, Absent, Absent), gStyle),
     Styled(Element("path", pathParent, Absent, Absent, Absent, Attr(d), Absent),
            pStyle) >>

LayerDocuments ==
  { LayerDocument(defsParent, ref, dc, d, gStyle, pStyle, pathParent) :
      defsParent \in {1, 2},
      ref \in {Ref(Absent, Absent), Ref(Attr(UrlC), Absent),
               Ref(Absent, Attr(UrlC))},
      dc \in {ClipSquare, <<>>}, d \in {ContentSquare, ClipSquare},
      gStyle \in StyleChoices, pStyle \in StyleChoices, pathParent \in {1, 7} }

Documents == PathDocuments \cup GroupDocuments \cup LayerDocuments

\* Documents a later export may be run on: the same ids, other geometry.
ReloadDocuments ==
  { PathDocument(Ref(Absent, Absent), Ref(Attr(UrlC), Absent),
                 MaskSquare, ContentSquare, Absent),
    GroupDocument(Ref(Attr(UrlC), Absent), Ref(Absent, Attr(UrlC)), 1,
                  MaskSquare, ContentSquare, Absent),
    GroupDocument(Ref(Attr(UrlC), Absent), Ref(Attr(UrlX), Absent), 1,
                  ClipSquare, ContentSquare, Absent) }

\* Elements of the host page that precede the <svg> in document order: each
\* has an id attribute and path children with the given d attributes.
HostElement(id, ds) == [id |-> id, ds |-> ds]
Pages == { <<>>, <<HostElement(Attr(<<"c">>), <<Attr(FarSquare)>>)>> }

\* ------------------------------------------------------------------------
\* The controls: parameters, files, requests
\* ------------------------------------------------------------------------
\* window.cmykParams as the page loads, cmyk-controls.js lines 10-22.
DefaultParams ==
  [threshold_c |-> 128, threshold_m |-> 128, threshold_y |-> 90,
   threshold_k |-> 128, density_c |-> 160, density_m |-> 160,
   density_y |-> 160, density_k |-> 185, skip_paths_longer_than |-> 25]

\* The range of each slider, lines 79-87.
SliderRange(field) ==
  IF field \in {"threshold_c", "threshold_m", "threshold_y", "threshold_k"}
    THEN 0..255
  ELSE IF field \in {"density_c", "density_m", "density_y", "density_k"}
    THEN 10..200
  ELSE 5..100

\* The slider positions explored: an end of the range of every slider.
SliderChoices ==
  {<<"threshold_c", 0>>, <<"threshold_m", 255>>, <<"threshold_y", 255>>,
   <<"threshold_k", 0>>, <<"density_c", 200>>, <<"density_m", 10>>,
   <<"density_y", 10>>, <<"density_k", 200>>,
   <<"skip_paths_longer_than", 5>>}

\* A File: its name and what it holds.
File(name, bytes) == [name |-> name, bytes |-> bytes]
\* new File([blob], 'urn.png') of frontend/static/urn.png, line 141.
DefaultFile == File("urn.png", "static urn")
\* What event.target.files[0] may be: nothing, or a file the user picked.
UploadChoices ==
  {Absent, Attr(File("photo.png", "photo")), Attr(File("urn.png", "other urn"))}

\* A divisor computed from a density that is 10 too low.
DivisorFrom200(density) == 200 - density

\* 210 - cmykParams.density_x, lines 226-229.
Divisor(density) == 210 - density

\* value || default on a number: 0 is falsy, api-client.js lines 35-39.
OrDefault(value, default) == IF value # 0 THEN value ELSE default

\* The params object processImage builds, lines 220-231.
RequestParams(p) ==
  [threshold_c |-> p.threshold_c, threshold_m |-> p.threshold_m,
   threshold_y |-> p.threshold_y, threshold_k |-> p.threshold_k,
   divisor_c |-> Divisor(p.density_c), divisor_m |-> Divisor(p.density_m),
   divisor_y |-> Divisor(p.density_y), divisor_k |-> Divisor(p.density_k),
   skip_paths_longer_than |-> p.skip_paths_longer_than]

\* The FormData CMYKAPIClient.processImage posts, api-client.js lines 33-39.
FormData(imageFile, params) ==
  [image |-> imageFile,
   divisor_c |-> OrDefault(params.divisor_c, 50),
   divisor_m |-> OrDefault(params.divisor_m, 50),
   divisor_y |-> OrDefault(params.divisor_y, 50),
   divisor_k |-> OrDefault(params.divisor_k, 25),
   skip_paths_longer_than |-> OrDefault(params.skip_paths_longer_than, 25)]

\* Lines 41-52 of cmyk-controls.js.
IsUrnPng(file) == file.name = "urn.png"
HasDefaultParams(p) ==
  /\ p.threshold_c = 128
  /\ p.threshold_m = 128
  /\ p.threshold_y = 90
  /\ p.threshold_k = 128
  /\ p.density_c = 160
  /\ p.density_m = 160
  /\ p.density_y = 160
  /\ p.density_k = 185
  /\ p.skip_paths_longer_than = 25

\* A fast path chosen on the file name alone.
CachedPathByName(file, p) == IsUrnPng(file)

\* isUrnPng && hasDefaultParams, line 54.
UsesCachedPath(file, p) == IsUrnPng(file) /\ HasDefaultParams(p)

\* What a request may come back with: a body (response.ok and JSON), a
\* non-OK response with or without a detail field in its JSON, or no
\* response at all (fetch rejects).
OkResponse(body) == [kind |-> "ok", body |-> body]
HttpError(status, detail) == [kind |-> "http", status |-> status, detail |-> detail]
NetworkError == [kind |-> "network"]
Failures ==
  {HttpError(500, Absent), HttpError(422, Attr("Invalid image")), NetworkError}

\* error.message of what CMYKAPIClient.processImage throws, api-client.js
\* lines 47-55: errorData.detail || `HTTP error ${response.status}`, or the
\* message of the error fetch raised.
ErrorMessage(failure) ==
  IF failure.kind = "http"
    THEN IF failure.detail # Absent /\ failure.detail[1] # ""
           THEN <<failure.detail[1]>>
           ELSE <<"HTTP error ", failure.status>>
  ELSE <<"Failed to fetch">>

\* showStatus(message, type), lines 252-256.
Status(message, type) == [message |-> message, type |-> type]
NoStatus == Status(<<>>, "")

\* The body of the responses: frontend/cache/urn_default.json, and what the
\* backend returns for a posted form.
CachedBody == [source |-> "cache"]
BackendBody(form) == [source |-> "backend", form |-> form]

\* An assignment that also runs when the request failed.
DataAlwaysAssigned(previous, response) ==
  IF response.kind = "ok" THEN Attr(response.body) ELSE Attr([source |-> "error"])

\* const result = await ...; window.cmykData = result, lines 233-234 (and
\* 158-159): the assignment is skipped when the await throws.
DataAfterResponse(previous, response) ==
  IF response.kind = "ok" THEN Attr(response.body) ELSE previous

\* One asynchronous operation: loadDefaultImage ("load") or processImage
\* ("process"), where it is suspended ("image", "cache", "backend"), the
\* handler that started it ("startup", "upload", "reprocess"), the file,
\* params and form of its request and the order number of that request.
Task(kind, by, at, file, params, form, seq) ==
  [kind |-> kind, by |-> by, at |-> at, file |-> file, params |-> params,
   form |-> form, seq |-> seq, outcome |-> "pending"]

\* An operation that has returned: its locals are gone, how it ended ("ok",
\* or the kind of the failure) is kept.
Settled(outcome) ==
  [kind |-> "", by |-> "", at |-> "settled", file |-> Absent,
   params |-> Absent, form |-> Absent, seq |-> 0, outcome |-> outcome]

\* ------------------------------------------------------------------------
\* State
\* ------------------------------------------------------------------------
VARIABLES
  page,              \* host elements preceding the <svg> in the live document
  orig,              \* origSvgElement: the <svg> of the live document
  svgElement,        \* the deep clone clipSVGPaths works on and returns
  clipPathElements,  \* the static NodeList of line 34
  elementMap,        \* the Map of line 36: id -> cached path data
  pc,                \* position inside clipSVGPaths
  idx,               \* position of the running forEach
  error,             \* the line that raised, 0 when none did
  invocation,        \* number of clipSVGPaths calls started so far
  walks,             \* per id: times the definition subtree was walked (line 50)
  hits,              \* per id: elementMap.get calls served by an entry (line 67)
  stored,            \* per id: the path data first stored under it (line 58)
  lastRead,          \* the latest elementMap.get: id, data, writer, reader
  cachedBefore       \* ids cached by earlier invocations

VARIABLES
  cmykParams,        \* window.cmykParams: thresholds, densities, skip
  currentImageFile,  \* window.currentImageFile: undefined or a File
  cmykData,          \* window.cmykData: null or a response body
  rendered,          \* the cmykData renderCMYKLayers drew last
  statusMessage,     \* text and class of #status-message
  tasks,             \* the asynchronous operations started so far
  timers,            \* pending setTimeout(() => showStatus('', ''), 2000)
  edits,             \* slider changes made so far
  lastSelected,      \* the file of the latest upload, Absent before one
  issued,            \* number of requests sent so far
  latest             \* the request sent last: the body of its successful
                     \* response, and how it ended

clipVars == <<page, orig, svgElement, clipPathElements, elementMap, pc, idx,
              error, invocation, walks, hits, stored, lastRead, cachedBefore>>

controlVars == <<cmykParams, currentImageFile, cmykData, rendered,
                 statusMessage, tasks, timers, edits, lastSelected, issued,
                 latest>>

vars == <<page, orig, svgElement, clipPathElements, elementMap, pc, idx, error,
          invocation, walks, hits, stored, lastRead, cachedBefore,
          cmykParams, currentImageFile, cmykData, rendered,
          statusMessage, tasks, timers, edits, lastSelected, issued, latest>>

\* The controls as the scripts leave them once the page has loaded:
\* lines 6-22, and initializeCMYKControls (lines 119-132) has called
\* loadDefaultImage, which is suspended at its first await.
ControlsInit ==
  /\ cmykParams = DefaultParams
  /\ currentImageFile = Absent
  /\ cmykData = Absent
  /\ rendered = Absent
  /\ statusMessage = NoStatus
  /\ tasks = <<Task("load", "startup", "image", Absent, Absent, Absent, 0)>>
  /\ timers = 0
  /\ edits = 0
  /\ lastSelected = Absent
  /\ issued = 0
  /\ latest = [body |-> Absent, outcome |-> "none"]

NoRead == [id |-> <<>>, data |-> <<>>, writer |-> 0, reader |-> 0]
Zero == [id \in Ids |-> 0]
NoStored == [id \in Ids |-> <<>>]

\* document.getElementById(id) followed by querySelectorAll('path') and
\* getAttribute('d'): the first element of the live document carrying the id,
\* host elements first, then the original <svg> tree (never the clone).
HostHits(id) == {k \in 1..Len(page) : page[k].id = Attr(id)}
TreeHits(id) == {n \in 1..Len(orig) : orig[n].id = Attr(id)}
GetElementById(id) ==
  IF HostHits(id) # {}
    THEN [found |-> TRUE, ds |-> page[Min(HostHits(id))].ds]
  ELSE IF TreeHits(id) # {}
    THEN LET def == Min(TreeHits(id))
             paths == PathsIn(orig, def)
         IN [found |-> TRUE, ds |-> [k \in 1..Len(paths) |-> orig[paths[k]].d]]
  ELSE [found |-> FALSE, ds |-> <<>>]

\* A clone that is the original itself: const svgElement = origSvgElement.
AliasedOriginal(mutatedClone) == mutatedClone

\* origSvgElement.cloneNode(true) of line 26: the clone shares no node with
\* the original, which a mutation of the clone therefore leaves as it is.
OriginalAfter(mutatedClone) == orig

\* A map that outlives the invocation (a module-level cache).
SharedElementMap(previous) == previous

\* new Map() of line 36.
NewElementMap(previous) == <<>>

\* A first pass without the has() guard.
AlwaysBuild(map, id) == TRUE

\* !elementMap.has(elementId) of line 48.
NeedsBuild(map, id) == id \notin DOMAIN map

Init ==
  /\ page \in Pages
  /\ orig \in Documents
  /\ svgElement = <<>>
  /\ clipPathElements = <<>>
  /\ elementMap = <<>>
  /\ pc = "idle"
  /\ idx = 1
  /\ error = 0
  /\ invocation = 0
  /\ walks = Zero
  /\ hits = Zero
  /\ stored = NoStored
  /\ lastRead = NoRead
  /\ cachedBefore = {}
  /\ ControlsInit

\* exportCurrentSVG calls clipSVGPaths: lines 2-4 and 24-36.
ClipStart ==
  /\ UNCHANGED controlVars
  /\ pc = "idle"
  /\ svgElement' = orig
  /\ clipPathElements' = QueryClipElements(orig)
  /\ elementMap' = NewElementMap(elementMap)
  /\ pc' = "pass1"
  /\ idx' = 1
  /\ error' = 0
  /\ invocation' = invocation + 1
  /\ walks' = Zero
  /\ hits' = Zero
  /\ stored' = NoStored
  /\ lastRead' = NoRead
  /\ cachedBefore' = cachedBefore \cup DOMAIN elementMap
  /\ UNCHANGED <<page, orig>>

Raise(line) ==
  /\ pc' = "threw"
  /\ error' = line
  /\ UNCHANGED <<svgElement, elementMap, idx, walks, hits, stored, lastRead, cachedBefore>>

\* One iteration of the first forEach, lines 40-60.
Pass1Step ==
  /\ UNCHANGED controlVars
  /\ pc = "pass1"
  /\ idx <= Len(clipPathElements)
  /\ LET element == svgElement[clipPathElements[idx]]
         clipPathAttr == OrElse(element.clip, element.mask)
         match == IF clipPathAttr = Absent THEN <<>> ELSE MatchId(clipPathAttr[1])
     IN IF match = <<>>
          THEN Raise(44)
        ELSE LET elementId == match[1]
                 clipPathElement == GetElementById(elementId)
             IN IF ~NeedsBuild(elementMap, elementId)
                  THEN /\ idx' = idx + 1
                       /\ UNCHANGED <<svgElement, elementMap, pc, error,
                                      walks, hits, stored, lastRead, cachedBefore>>
                ELSE IF ~clipPathElement.found
                  THEN Raise(50)
                ELSE LET data == PathData(PaperPath(JoinD(clipPathElement.ds)))
                     IN /\ elementMap' =
                             (elementId :> [data |-> data, inv |-> invocation])
                               @@ elementMap
                        /\ walks' = [walks EXCEPT ![elementId] = @ + 1]
                        /\ stored' = [stored EXCEPT ![elementId] =
                                        IF walks[elementId] = 0 THEN data ELSE @]
                        /\ idx' = idx + 1
                        /\ UNCHANGED <<svgElement, pc, error, hits, lastRead,
                                       cachedBefore>>
  /\ UNCHANGED <<page, orig, clipPathElements, invocation>>

\* An order of the blocks in which <defs> is removed before the originals.
DefsBeforeOriginals(position) ==
  CASE position = "pass1" -> "pass2"
    [] position = "pass2" -> "defs"
    [] position = "defs" -> "cleanup"
    [] position = "cleanup" -> "sentinel"
    [] position = "sentinel" -> "done"

\* The order of the blocks of clipSVGPaths: first forEach (line 40), second
\* forEach (line 63), cleanup step 1 (line 103), step 2 (lines 105-108),
\* step 3 (line 111), return (line 113).
StatementAfter(position) ==
  CASE position = "pass1" -> "pass2"
    [] position = "pass2" -> "cleanup"
    [] position = "cleanup" -> "defs"
    [] position = "defs" -> "sentinel"
    [] position = "sentinel" -> "done"

\* The first forEach is exhausted; the second begins (line 63).
Pass1Done ==
  /\ UNCHANGED controlVars
  /\ pc = "pass1"
  /\ idx > Len(clipPathElements)
  /\ pc' = StatementAfter(pc)
  /\ idx' = 1
  /\ UNCHANGED <<page, orig, svgElement, clipPathElements, elementMap, error,
                 invocation, walks, hits, stored, lastRead, cachedBefore>>

\* The <path> created by lines 90-95: d from the intersection, style from the
\* style source with the || defaults, and the data-clipped marker.
StyleOr(a, default) == IF TruthyStyle(a) THEN a ELSE Attr(default)
UnmarkedPath(parent, d, source) ==
  [tag |-> "path", parent |-> parent, id |-> Absent, clip |-> Absent,
   mask |-> Absent, d |-> Attr(d), fill |-> StyleOr(source.fill, "none"),
   stroke |-> StyleOr(source.stroke, "black"), sw |-> StyleOr(source.sw, "1"),
   clipped |-> FALSE]
GeneratedPath(parent, d, source) ==
  [tag |-> "path", parent |-> parent, id |-> Absent, clip |-> Absent,
   mask |-> Absent, d |-> Attr(d), fill |-> StyleOr(source.fill, "none"),
   stroke |-> StyleOr(source.stroke, "black"), sw |-> StyleOr(source.sw, "1"),
   clipped |-> TRUE]

\* A style source that is always the clip-bearing element.
StyleFromElement(t, e) == t[e]

\* pathElements.length > 0 ? pathElements[0] : element, line 87.
StyleSource(t, e) ==
  LET pathElements == PathsIn(t, e)
  IN IF Len(pathElements) > 0 THEN t[pathElements[1]] ELSE t[e]

\* One iteration of the second forEach, lines 63-98.
Pass2Step ==
  /\ UNCHANGED controlVars
  /\ pc = "pass2"
  /\ idx <= Len(clipPathElements)
  /\ LET e == clipPathElements[idx]
         element == svgElement[e]
         clipPathAttr == OrElse(element.clip, element.mask)
         match == IF clipPathAttr = Absent THEN <<>> ELSE MatchId(clipPathAttr[1])
     IN IF match = <<>>
          THEN Raise(66)
        ELSE LET elementId == match[1]
                 hit == elementId \in DOMAIN elementMap
                 clipPathData == IF hit THEN elementMap[elementId].data ELSE <<>>
                 pathElements == PathsIn(svgElement, e)
                 path == PaperPath(JoinD([k \in 1..Len(pathElements) |->
                                            svgElement[pathElements[k]].d]))
                 clipPath == PaperPath(clipPathData)
                 intersection == Intersect(path, clipPath)
                 originalStyleSource == StyleSource(svgElement, e)
                 pathElement ==
                   GeneratedPath(e, PathData(intersection), originalStyleSource)
             IN /\ svgElement' =
                     Append([svgElement EXCEPT ![e].clip = Absent,
                                               ![e].mask = Absent], pathElement)
                /\ hits' = IF hit THEN [hits EXCEPT ![elementId] = @ + 1]
                            ELSE hits
                /\ lastRead' = [id |-> elementId, data |-> clipPathData,
                                writer |-> IF hit THEN elementMap[elementId].inv
                                           ELSE 0,
                                reader |-> invocation]
                /\ idx' = idx + 1
                /\ UNCHANGED <<elementMap, pc, error, walks, stored,
                               cachedBefore>>
  /\ orig' = OriginalAfter(svgElement')
  /\ UNCHANGED <<page, clipPathElements, invocation>>

\* The second forEach is exhausted; cleanup begins (line 103).
Pass2Done ==
  /\ UNCHANGED controlVars
  /\ pc = "pass2"
  /\ idx > Len(clipPathElements)
  /\ pc' = StatementAfter(pc)
  /\ idx' = 1
  /\ UNCHANGED <<page, orig, svgElement, clipPathElements, elementMap, error,
                 invocation, walks, hits, stored, lastRead, cachedBefore>>

\* p.remove() for every p of a set: each is detached from its parent.
RemoveAll(t, S) == [n \in 1..Len(t) |->
                      IF n \in S THEN [t[n] EXCEPT !.parent = 0] ELSE t[n]]

\* A selector that is run on the whole document instead of the element.
UnmarkedPathsAnywhere(t, e) ==
  {n \in Descendants(t, 1) : t[n].tag = "path" /\ ~t[n].clipped}

\* element.querySelectorAll('path:not([data-clipped])') of line 103.
UnmarkedPathsIn(t, e) ==
  {n \in Descendants(t, e) : t[n].tag = "path" /\ ~t[n].clipped}

\* One iteration of the forEach of line 103.
CleanupStep ==
  /\ UNCHANGED controlVars
  /\ pc = "cleanup"
  /\ idx <= Len(clipPathElements)
  /\ LET e == clipPathElements[idx]
         originals == UnmarkedPathsIn(svgElement, e)
     IN svgElement' = RemoveAll(svgElement, originals)
  /\ idx' = idx + 1
  /\ orig' = OriginalAfter(svgElement')
  /\ UNCHANGED <<page, clipPathElements, elementMap, pc, error,
                 invocation, walks, hits, stored, lastRead, cachedBefore>>

\* The forEach of line 103 is exhausted.
CleanupDone ==
  /\ UNCHANGED controlVars
  /\ pc = "cleanup"
  /\ idx > Len(clipPathElements)
  /\ pc' = StatementAfter(pc)
  /\ UNCHANGED <<page, orig, svgElement, clipPathElements, elementMap, idx,
                 error, invocation, walks, hits, stored, lastRead, cachedBefore>>

\* A selection of every <defs>, as querySelectorAll would give.
EveryDefs(t) == {n \in Descendants(t, 1) : t[n].tag = "defs"}

\* svgElement.querySelector('defs') of line 105: the first <defs> of the
\* tree in document order, {} for null.
FirstDefs(t) ==
  LET found == {n \in Descendants(t, 1) : t[n].tag = "defs"}
  IN IF found = {} THEN {} ELSE {Min(found)}

\* Lines 105-108: svgElement.querySelector('defs') and its removal.
RemoveDefs ==
  /\ UNCHANGED controlVars
  /\ pc = "defs"
  /\ svgElement' = RemoveAll(svgElement, FirstDefs(svgElement))
  /\ pc' = StatementAfter(pc)
  /\ orig' = OriginalAfter(svgElement')
  /\ UNCHANGED <<page, clipPathElements, elementMap, idx, error,
                 invocation, walks, hits, stored, lastRead, cachedBefore>>

\* A selector that takes every filled path: 'path[fill]'.
FilledPaths(t) ==
  {n \in Descendants(t, 1) : t[n].tag = "path" /\ t[n].fill # Absent}

\* svgElement.querySelectorAll('path[fill="#FFF"]') of line 111.
BlankPaths(t) ==
  {n \in Descendants(t, 1) : t[n].tag = "path" /\ t[n].fill = Attr("#FFF")}

\* Lines 110-113: the paths with fill="#FFF" are removed, the clone returned.
RemoveBlank ==
  /\ UNCHANGED controlVars
  /\ pc = "sentinel"
  /\ svgElement' = RemoveAll(svgElement, BlankPaths(svgElement))
  /\ pc' = StatementAfter(pc)
  /\ orig' = OriginalAfter(svgElement')
  /\ UNCHANGED <<page, clipPathElements, elementMap, idx, error,
                 invocation, walks, hits, stored, lastRead, cachedBefore>>

\* A function that gives control back between its steps, as one with an
\* await in its loops would.
YieldsBetweenSteps(position) == TRUE

\* clipSVGPaths is a plain function: no async, await, timer or listener from
\* line 24 to line 114, and the forEach callbacks are called synchronously.
\* Another handler of the page runs only once the call has returned or raised.
OtherHandlerMayRun(position) == position \in {"done", "threw"}

\* The export has ended (returned or raised); the page shows another drawing
\* before the next export.
LoadDocument ==
  /\ UNCHANGED controlVars
  /\ OtherHandlerMayRun(pc)
  /\ invocation < MaxInvocations
  /\ orig' \in ReloadDocuments
  /\ pc' = "idle"
  /\ UNCHANGED <<page, svgElement, clipPathElements, elementMap, idx, error,
                 invocation, walks, hits, stored, lastRead, cachedBefore>>

Next ==
  \/ ClipStart
  \/ Pass1Step
  \/ Pass1Done
  \/ Pass2Step
  \/ Pass2Done
  \/ CleanupStep
  \/ CleanupDone
  \/ RemoveDefs
  \/ RemoveBlank
  \/ LoadDocument

Spec == Init /\ [][Next]_vars

\* ------------------------------------------------------------------------
\* The controls: handlers and responses
\* ------------------------------------------------------------------------
\* processImage(file) up to its await (cmyk-controls.js lines 217-233), with
\* CMYKAPIClient.processImage up to its fetch (api-client.js lines 33-42).
Processing == Status(<<"Processing image...">>, "processing")
Posted(kind, by, file) ==
  LET params == RequestParams(cmykParams)
  IN Task(kind, by, "backend", Attr(file), Attr(params),
          Attr(FormData(file, params)), issued + 1)

\* The request issued last, once a new one has been sent.
Issue(body) == [body |-> Attr(body), outcome |-> "pending"]

\* The request issued last, once the request of task k has ended.
RequestEnded(k, outcome) ==
  IF tasks[k].seq = issued THEN [latest EXCEPT !.outcome = outcome]
  ELSE latest

\* handleFileUpload, lines 194-211: no file chosen, or a file.
Upload(choice) ==
  /\ UNCHANGED clipVars
  /\ IF choice = Absent
       THEN UNCHANGED controlVars
     ELSE /\ Len(tasks) < MaxTasks
          /\ currentImageFile' = choice
          /\ lastSelected' = choice
          /\ statusMessage' = Processing
          /\ tasks' = Append(tasks, Posted("process", "upload", choice[1]))
          /\ issued' = issued + 1
          /\ latest' = Issue(BackendBody(tasks'[Len(tasks')].form[1]))
          /\ UNCHANGED <<cmykParams, cmykData, rendered, timers, edits>>

\* cmykParams.reprocess, lines 34-61.
Reprocess ==
  /\ UNCHANGED clipVars
  /\ IF currentImageFile = Absent
       THEN /\ statusMessage' =
                 Status(<<"Please upload an image first">>, "error")
            /\ UNCHANGED <<cmykParams, currentImageFile, cmykData, rendered,
                           tasks, timers, edits, lastSelected, issued,
                           latest>>
     ELSE IF UsesCachedPath(currentImageFile[1], cmykParams)
       THEN /\ Len(tasks) < MaxTasks
            /\ tasks' = Append(tasks, Task("load", "reprocess", "image",
                                           Absent, Absent, Absent, 0))
            /\ UNCHANGED <<cmykParams, currentImageFile, cmykData, rendered,
                           statusMessage, timers, edits, lastSelected,
                           issued, latest>>
     ELSE /\ Len(tasks) < MaxTasks
          /\ statusMessage' = Processing
          /\ tasks' = Append(tasks, Posted("process", "reprocess",
                                         currentImageFile[1]))
          /\ issued' = issued + 1
          /\ latest' = Issue(BackendBody(tasks'[Len(tasks')].form[1]))
          /\ UNCHANGED <<cmykParams, currentImageFile, cmykData, rendered,
                         timers, edits, lastSelected>>

\* A slider of the dat.GUI panel is moved, lines 79-87.
SetSlider(choice) ==
  /\ UNCHANGED clipVars
  /\ edits < MaxEdits
  /\ choice[2] \in SliderRange(choice[1])
  /\ cmykParams' = [cmykParams EXCEPT ![choice[1]] = choice[2]]
  /\ edits' = edits + 1
  /\ UNCHANGED <<currentImageFile, cmykData, rendered, statusMessage, tasks,
                 timers, lastSelected, issued, latest>>

\* loadDefaultImage resumes after fetch and blob, lines 139-158.
ImageFetched(k) ==
  /\ UNCHANGED clipVars
  /\ tasks[k].at = "image"
  /\ currentImageFile' = Attr(DefaultFile)
  /\ statusMessage' = Status(<<"Loading default image...">>, "processing")
  /\ tasks' = [tasks EXCEPT ![k].at = "cache",
                            ![k].file = Attr(DefaultFile),
                            ![k].seq = issued + 1]
  /\ issued' = issued + 1
  /\ latest' = Issue(CachedBody)
  /\ UNCHANGED <<cmykParams, cmykData, rendered, timers, edits,
                 lastSelected>>

\* fetch or blob rejects: the outer catch, lines 173-176.
ImageFetchFails(k) ==
  /\ UNCHANGED clipVars
  /\ tasks[k].at = "image"
  /\ tasks' = [tasks EXCEPT ![k] = Settled("network")]
  /\ UNCHANGED <<cmykParams, currentImageFile, cmykData, rendered,
                 statusMessage, timers, edits, lastSelected, issued, latest>>

\* getCachedUrnResponse settles, lines 158-172: the cached body is drawn, or
\* the catch falls back to processImage(file).
CacheResponds(k, response) ==
  /\ UNCHANGED clipVars
  /\ tasks[k].at = "cache"
  /\ IF response.kind = "ok"
       THEN /\ cmykData' = DataAfterResponse(cmykData, response)
            /\ statusMessage' = Status(<<"Default image loaded">>, "success")
            /\ timers' = timers + 1
            /\ rendered' = cmykData'
            /\ tasks' = [tasks EXCEPT ![k] = Settled(response.kind)]
            /\ latest' = RequestEnded(k, response.kind)
            /\ UNCHANGED issued
     ELSE /\ statusMessage' = Processing
          /\ tasks' = [tasks EXCEPT ![k] = Posted("load", tasks[k].by,
                                                  tasks[k].file[1])]
          /\ issued' = issued + 1
          /\ latest' = Issue(BackendBody(tasks'[k].form[1]))
          /\ UNCHANGED <<cmykData, rendered, timers>>
  /\ UNCHANGED <<cmykParams, currentImageFile, edits, lastSelected>>

\* apiClient.processImage settles, lines 233-246.
BackendResponds(k, response) ==
  /\ UNCHANGED clipVars
  /\ tasks[k].at = "backend"
  /\ cmykData' = DataAfterResponse(cmykData, response)
  /\ IF response.kind = "ok"
       THEN /\ statusMessage' = Status(<<"Processing complete">>, "success")
            /\ timers' = timers + 1
            /\ rendered' = cmykData'
     ELSE /\ statusMessage' =
               Status(<<"Error: ">> \o ErrorMessage(response), "error")
          /\ UNCHANGED <<rendered, timers>>
  /\ tasks' = [tasks EXCEPT ![k] = Settled(response.kind)]
  /\ latest' = RequestEnded(k, response.kind)
  /\ UNCHANGED <<cmykParams, currentImageFile, edits, lastSelected, issued>>

\* A timer of line 162 or 237 fires: showStatus('', '').
TimerFires ==
  /\ UNCHANGED clipVars
  /\ timers > 0
  /\ timers' = timers - 1
  /\ statusMessage' = NoStatus
  /\ UNCHANGED <<cmykParams, currentImageFile, cmykData, rendered, tasks,
                 edits, lastSelected, issued, latest>>


CacheResponses == {OkResponse(CachedBody), HttpError(404, Absent)}
BackendResponses(k) == {OkResponse(BackendBody(tasks[k].form[1]))} \cup Failures

ControlsNext ==
  \/ \E choice \in UploadChoices : Upload(choice)
  \/ Reprocess
  \/ \E choice \in SliderChoices : SetSlider(choice)
  \/ \E k \in 1..Len(tasks) : ImageFetched(k)
  \/ \E k \in 1..Len(tasks) : ImageFetchFails(k)
  \/ \E k \in 1..Len(tasks) : \E r \in CacheResponses : CacheResponds(k, r)
  \/ \E k \in 1..Len(tasks) :
       tasks[k].at = "backend" /\ \E r \in BackendResponses(k) : BackendResponds(k, r)
  \/ TimerFires

\* The page with no export running.
ExportAtRest ==
  /\ page = <<>>
  /\ orig = <<>>
  /\ svgElement = <<>>
  /\ clipPathElements = <<>>
  /\ elementMap = <<>>
  /\ pc = "idle"
  /\ idx = 1
  /\ error = 0
  /\ invocation = 0
  /\ walks = Zero
  /\ hits = Zero
  /\ stored = NoStored
  /\ lastRead = NoRead
  /\ cachedBefore = {}

ControlsStart == ExportAtRest /\ ControlsInit

ControlsSpec == ControlsStart /\ [][ControlsNext]_vars

\* ------------------------------------------------------------------------
\* Vocabulary of the properties
\* ------------------------------------------------------------------------
\* The elements still attached to the root of a tree.
Live(t) == {1} \cup Descendants(t, 1)

\* The id a clip-path/mask pair resolves to: <<>> when lines 41-44 raise.
RefId(el) ==
  LET a == OrElse(el.clip, el.mask)
  IN IF a = Absent THEN <<>> ELSE MatchId(a[1])

ClipBearing(t) == {n \in Descendants(t, 1) : HasClipAttr(t[n])}
Malformed(t) == {n \in ClipBearing(t) : RefId(t[n]) = <<>>}
Unresolved(t) ==
  {n \in ClipBearing(t) \ Malformed(t) : ~GetElementById(RefId(t[n])[1]).found}
Referencing(t, id) == {n \in ClipBearing(t) : RefId(t[n]) = <<id>>}

\* Children of e that carry the data-clipped marker.
GeneratedChildren(t, e) ==
  {n \in 1..Len(t) : t[n].parent = e /\ t[n].tag = "path" /\ t[n].clipped}

Flattened(n) ==
  /\ svgElement[n].clip = Absent
  /\ svgElement[n].mask = Absent

Ended == pc \in {"done", "threw"}
AfterPass1 == pc \in {"pass2", "cleanup", "defs", "sentinel", "done"}
AfterPass2 == pc \in {"cleanup", "defs", "sentinel", "done"}

\* The first forEach has reached position k of clipPathElements.
Visited1(k) ==
  \/ pc = "pass1" /\ k < idx
  \/ pc = "threw" /\ error \in {44, 50} /\ k <= idx
  \/ pc = "threw" /\ error = 66
  \/ AfterPass1

\* Content of element e as authored, clipped by the cached geometry of its id.
ExpectedIntersection(e) ==
  LET paths == PathsIn(orig, e)
      id == RefId(orig[e])[1]
  IN Intersect(PaperPath(JoinD([k \in 1..Len(paths) |-> orig[paths[k]].d])),
               PaperPath(elementMap[id].data))

\* ------------------------------------------------------------------------
\* C1
\* ------------------------------------------------------------------------
SquareExample ==
  PathDocument(Ref(Absent, Absent), Ref(Attr(UrlC), Absent),
               ClipSquare, ContentSquare, Absent)

\* C1: the document with clipPath c = square (0,0)-(10,10) and one
\* <path clip-path="url(#c)"> of the square (5,5)-(15,15) flattens to a
\* document without clip-path attribute, without <defs>, and with exactly one
\* generated path, whose geometry is the square (5,5)-(10,10).
C1_SquareExampleFlattens ==
  (pc = "done" /\ orig = SquareExample /\ page = <<>>) =>
     /\ \A n \in Live(svgElement) : Flattened(n)
     /\ \A n \in Live(svgElement) : svgElement[n].tag # "defs"
     /\ Cardinality({n \in Live(svgElement) : svgElement[n].clipped}) = 1
     /\ \A n \in Live(svgElement) :
          svgElement[n].clipped =>
            PaperPath(svgElement[n].d[1]) = CellsOf(Rect(1, 1, 2, 2))

\* ------------------------------------------------------------------------
\* C2
\* ------------------------------------------------------------------------
\* C2: in a document with a malformed clip-path/mask value, when the export
\* has ended it has returned, the malformed elements are as authored and every
\* other clip-bearing element has been flattened.
C2_MalformedReferenceSkipped ==
  (Ended /\ Malformed(orig) # {} /\ Unresolved(orig) = {}) =>
     /\ pc = "done"
     /\ \A n \in Malformed(orig) :
          /\ svgElement[n].clip = orig[n].clip
          /\ svgElement[n].mask = orig[n].mask
          /\ GeneratedChildren(svgElement, n) = {}
     /\ \A n \in ClipBearing(orig) \ Malformed(orig) :
          /\ Flattened(n)
          /\ GeneratedChildren(svgElement, n) # {}

\* ------------------------------------------------------------------------
\* C3
\* ------------------------------------------------------------------------
\* C3: once the first pass has visited an element whose id names no element,
\* the cache holds the empty path data under that id and nothing was raised.
C3_MissingDefinitionCachedEmpty ==
  \A k \in 1..Len(clipPathElements) :
    (pc # "idle" /\ Visited1(k) /\ clipPathElements[k] \in Unresolved(orig)) =>
       LET id == RefId(orig[clipPathElements[k]])[1]
       IN /\ error # 50
          /\ id \in DOMAIN elementMap
          /\ elementMap[id].data = <<>>

\* ------------------------------------------------------------------------
\* C4
\* ------------------------------------------------------------------------
\* C4: when the export of a document with well-formed references has ended,
\* it has returned, and every element whose id names no element has lost its
\* clip attribute and has no generated child.
C4_MissingDefinitionElementEmptied ==
  (Ended /\ Malformed(orig) = {} /\ Unresolved(orig) # {}) =>
     /\ pc = "done"
     /\ \A n \in Unresolved(orig) :
          /\ Flattened(n)
          /\ GeneratedChildren(svgElement, n) = {}

\* ------------------------------------------------------------------------
\* C5
\* ------------------------------------------------------------------------
\* C5: clipSVGPaths never raises, whatever the input tree.
C5_NeverRaises == pc # "threw" /\ error = 0

\* ------------------------------------------------------------------------
\* C6
\* ------------------------------------------------------------------------
\* The second forEach has just been exhausted and cleanup has removed nothing.
JustAfterPass2 == pc = "cleanup" /\ idx = 1
ClipElementSet == {clipPathElements[k] : k \in 1..Len(clipPathElements)}

\* C6, as the claim states it: after the second pass every resolved element has one
\* generated path among its children, and none when the intersection is empty.
C6_OneOrZeroWhenEmpty ==
  JustAfterPass2 =>
    \A e \in ClipElementSet :
      Cardinality(GeneratedChildren(svgElement, e)) =
        IF ExpectedIntersection(e) = {} THEN 0 ELSE 1

\* C6, amended: after the second pass every resolved element has exactly one
\* generated path among its children, never none and never two; when the
\* intersection is empty that path is present with empty path data.
C6_ExactlyOneGenerated ==
  JustAfterPass2 =>
    \A e \in ClipElementSet :
      /\ Cardinality(GeneratedChildren(svgElement, e)) = 1
      /\ \A g \in GeneratedChildren(svgElement, e) :
           /\ PaperPath(svgElement[g].d[1]) = ExpectedIntersection(e)
           /\ ExpectedIntersection(e) = {} => svgElement[g].d = Attr(<<>>)

C6_Witness ==
  /\ JustAfterPass2
  /\ \E e \in ClipElementSet : ExpectedIntersection(e) = {}
  /\ \E e \in ClipElementSet : ExpectedIntersection(e) # {}

\* ------------------------------------------------------------------------
\* C7
\* ------------------------------------------------------------------------
\* Element n refers to a definition of the tree that cleanup has detached.
RefersToRemoved(n) ==
  LET ref == RefId(svgElement[n])
  IN /\ ref # <<>>
     /\ \E m \in 1..Len(orig) :
          orig[m].id = Attr(ref[1]) /\ m \notin Live(svgElement)

\* C7: in the returned document no element, the root included, carries a
\* clip-path or mask that refers to a removed definition, and every element
\* that was flattened has lost both attributes.
C7_NoDanglingClipReference ==
  pc = "done" =>
    /\ \A n \in Live(svgElement) : ~RefersToRemoved(n)
    /\ \A e \in ClipElementSet : Flattened(e)

\* ------------------------------------------------------------------------
\* C8
\* ------------------------------------------------------------------------
\* C8: within one invocation the subtree of a definition is walked at most
\* once, exactly once for a cached id; the entry keeps the data first stored,
\* and every read returns that data.
C8_ComputedOncePerId ==
  /\ \A id \in Ids :
       /\ walks[id] <= 1
       /\ id \in DOMAIN elementMap =>
            walks[id] = 1 /\ elementMap[id].data = stored[id]
  /\ lastRead.reader # 0 =>
       /\ lastRead.id \in DOMAIN elementMap
       /\ lastRead.data = stored[lastRead.id]

C8_Witness ==
  \E id \in Ids :
    /\ Cardinality(Referencing(orig, id)) = 2
    /\ hits[id] = 2
    /\ walks[id] = 1
    /\ lastRead.id = id

\* ------------------------------------------------------------------------
\* C9
\* ------------------------------------------------------------------------
\* C9: when both passes have run over a document in which n elements refer
\* to an id, that id was built once and read from the cache n times (an id no
\* element refers to is neither built nor read); while the export runs an id
\* is never built twice nor read more than n times.
C9_OneBuildPerIdOneHitPerElement ==
  \A id \in Ids :
    LET n == Cardinality(Referencing(orig, id))
    IN /\ pc # "idle" => walks[id] <= 1 /\ hits[id] <= n
       /\ AfterPass2 => hits[id] = n /\ walks[id] = (IF n = 0 THEN 0 ELSE 1)

C9_Witness ==
  /\ pc = "done"
  /\ Cardinality(Referencing(orig, <<"c">>)) = 2
  /\ walks[<<"c">>] = 1
  /\ hits[<<"c">>] = 2

\* ------------------------------------------------------------------------
\* C10
\* ------------------------------------------------------------------------
\* C10: every cache entry was written by the running invocation, every read
\* is served by an entry of the running invocation, and the data read is the
\* geometry of the definition in the document being flattened.
C10_CacheScopedToInvocation ==
  /\ \A id \in DOMAIN elementMap : elementMap[id].inv = invocation
  /\ lastRead.reader # 0 =>
       /\ lastRead.writer = lastRead.reader
       /\ lastRead.reader = invocation
       /\ pc # "idle" =>
            lastRead.data =
              PathData(PaperPath(JoinD(GetElementById(lastRead.id).ds)))

C10_Witness ==
  /\ invocation = 2
  /\ lastRead.reader = 2
  /\ lastRead.id \in cachedBefore
  /\ lastRead.data # ClipSquare

\* ------------------------------------------------------------------------
\* C11
\* ------------------------------------------------------------------------
\* Authored paths that lie in no clip-bearing element of the document.
PathsOutsideClipElements ==
  {n \in 1..Len(orig) :
     /\ orig[n].tag = "path"
     /\ \A e \in ClipElementSet : e \notin Ancestors(orig, n)}

\* C11: when cleanup step 1 has run for all elements, no flattened element
\* has a descendant path without the generated marker, and every path outside
\* the flattened elements is still where it was authored.
C11_OriginalsRemovedInsideOnly ==
  pc = "defs" =>
    /\ \A e \in ClipElementSet :
         \A n \in Descendants(svgElement, e) :
           svgElement[n].tag = "path" => svgElement[n].clipped
    /\ \A n \in PathsOutsideClipElements :
         svgElement[n].parent = orig[n].parent

C11_Witness ==
  /\ pc = "defs"
  /\ \E n \in 1..Len(orig) :
       orig[n].tag = "path" /\ orig[n].parent # 0 /\ svgElement[n].parent = 0
  /\ \E n \in PathsOutsideClipElements :
       orig[orig[n].parent].tag \in {"svg", "g"}

\* ------------------------------------------------------------------------
\* C12
\* ------------------------------------------------------------------------
AuthoredDefs == {n \in 1..Len(orig) : orig[n].tag = "defs"}
BeforeStep2 == pc \in {"pass1", "pass2", "cleanup", "defs"}

\* C12: cleanup step 2 runs once step 1 is over, with or without clip
\* references in the document: until then every <defs> is in place, and after
\* it the first <defs> of the document (in document order) is detached while
\* every other element that is not a path is where it was authored.
C12_FirstDefsRemovedOnly ==
  /\ BeforeStep2 =>
       \A n \in AuthoredDefs : svgElement[n].parent = orig[n].parent
  /\ (pc = "sentinel" /\ AuthoredDefs # {}) =>
       /\ svgElement[Min(AuthoredDefs)].parent = 0
       /\ \A n \in 1..Len(orig) :
            (n # Min(AuthoredDefs) /\ orig[n].tag # "path") =>
              svgElement[n].parent = orig[n].parent

C12_Witness ==
  /\ pc = "sentinel"
  /\ ClipBearing(orig) = {}
  /\ Cardinality(AuthoredDefs) = 2
  /\ orig[Min(AuthoredDefs)].parent # 1
  /\ svgElement[Min(AuthoredDefs)].parent = 0
  /\ \E n \in AuthoredDefs : n \in Live(svgElement)

\* ------------------------------------------------------------------------
\* C13
\* ------------------------------------------------------------------------
IsBlankPath(t, n) == t[n].tag = "path" /\ t[n].fill = Attr("#FFF")

\* C13: cleanup step 3 detaches every path of the document whose fill is
\* "#FFF", wherever it sits, and leaves every other element as it was.
C13_BlankPathsRemovedOnly ==
  [][pc = "sentinel" =>
       /\ Len(svgElement') = Len(svgElement)
       /\ \A n \in 1..Len(svgElement) :
            IF n \in Live(svgElement) /\ IsBlankPath(svgElement, n)
              THEN svgElement'[n].parent = 0
              ELSE svgElement'[n] = svgElement[n]]_vars

C13_Witness ==
  /\ pc = "done"
  /\ \E n \in PathsOutsideClipElements :
       /\ IsBlankPath(orig, n)
       /\ orig[orig[n].parent].tag = "g"
       /\ svgElement[n].parent = 0
  /\ \E n \in Live(svgElement) :
       /\ svgElement[n].tag = "path"
       /\ svgElement[n].fill \notin {Absent, Attr("#FFF")}
  /\ \A n \in Live(svgElement) : ~IsBlankPath(svgElement, n)

\* ------------------------------------------------------------------------
\* C14
\* ------------------------------------------------------------------------
\* The element the style is read from, in the document as authored.
AuthoredStyleSource(e) ==
  LET paths == PathsIn(orig, e)
  IN IF Len(paths) > 0 THEN orig[paths[1]] ELSE orig[e]

GeneratedKept == pc \in {"cleanup", "defs", "sentinel"}

DefaultIfAbsent(a, default) == IF a = Absent THEN Attr(default) ELSE a
DefaultIfAbsentOrEmpty(a, default) ==
  IF a = Absent \/ a = Attr("") THEN Attr(default) ELSE a

\* C14, as the claim states it: the generated path carries the fill, stroke and
\* stroke-width of the element's first descendant path, or of the element when
\* it has no descendant path, and "none", "black", "1" for each attribute that
\* is absent on that source.
C14_StyleCopiedDefaultIfAbsent ==
  GeneratedKept =>
    \A e \in ClipElementSet : \A g \in GeneratedChildren(svgElement, e) :
      LET source == AuthoredStyleSource(e)
      IN /\ svgElement[g].fill = DefaultIfAbsent(source.fill, "none")
         /\ svgElement[g].stroke = DefaultIfAbsent(source.stroke, "black")
         /\ svgElement[g].sw = DefaultIfAbsent(source.sw, "1")

\* C14, amended: the same source, and the defaults "none", "black", "1" for
\* each attribute that is absent on it or present with the empty string as
\* its value.
C14_StyleCopiedDefaultIfAbsentOrEmpty ==
  GeneratedKept =>
    \A e \in ClipElementSet : \A g \in GeneratedChildren(svgElement, e) :
      LET source == AuthoredStyleSource(e)
      IN /\ svgElement[g].fill = DefaultIfAbsentOrEmpty(source.fill, "none")
         /\ svgElement[g].stroke = DefaultIfAbsentOrEmpty(source.stroke, "black")
         /\ svgElement[g].sw = DefaultIfAbsentOrEmpty(source.sw, "1")

C14_Witness ==
  /\ GeneratedKept
  /\ \E e \in ClipElementSet : \E g \in GeneratedChildren(svgElement, e) :
       /\ Len(PathsIn(orig, e)) > 0
       /\ orig[e].fill = Attr("red")
       /\ AuthoredStyleSource(e).fill = Attr("")
       /\ AuthoredStyleSource(e).stroke = Attr("blue")
       /\ AuthoredStyleSource(e).sw = Absent
       /\ svgElement[g].fill = Attr("none")
       /\ svgElement[g].stroke = Attr("blue")
       /\ svgElement[g].sw = Attr("1")

\* ------------------------------------------------------------------------
\* C15
\* ------------------------------------------------------------------------
CarriesClipPathOnly(e) == Truthy(orig[e].clip) /\ orig[e].mask = Absent
CarriesMaskOnly(e) == orig[e].clip = Absent /\ Truthy(orig[e].mask)
CarriesBoth(e) == Truthy(orig[e].clip) /\ Truthy(orig[e].mask)

\* The d attributes of the authored descendant paths of e, in document order.
ContentData(e) ==
  LET paths == PathsIn(orig, e)
  IN [k \in 1..Len(paths) |-> orig[paths[k]].d]

SameContent(e1, e2) ==
  /\ orig[e1].tag = orig[e2].tag
  /\ ContentData(e1) = ContentData(e2)
  /\ AuthoredStyleSource(e1).fill = AuthoredStyleSource(e2).fill
  /\ AuthoredStyleSource(e1).stroke = AuthoredStyleSource(e2).stroke
  /\ AuthoredStyleSource(e1).sw = AuthoredStyleSource(e2).sw

\* The generated children of e, their position in the tree put aside.
GeneratedImage(e) ==
  {[svgElement[g] EXCEPT !.parent = 0] : g \in GeneratedChildren(svgElement, e)}

\* C15: an element that carries only mask="url(#m)" ends as an element of the
\* same content that carries only clip-path="url(#m)" does: the same one
\* generated child, read from the same cache entry, and no clip-path or mask
\* attribute left; an element that carries both is clipped by the geometry its
\* clip-path attribute names.
C15_MaskFlattenedAsClipPath ==
  GeneratedKept =>
    /\ \A e1 \in ClipElementSet : \A e2 \in ClipElementSet :
         ( /\ CarriesClipPathOnly(e1)
           /\ CarriesMaskOnly(e2)
           /\ orig[e1].clip = orig[e2].mask
           /\ SameContent(e1, e2) ) =>
           /\ Flattened(e1)
           /\ Flattened(e2)
           /\ Cardinality(GeneratedImage(e2)) = 1
           /\ GeneratedImage(e2) = GeneratedImage(e1)
    /\ \A e \in ClipElementSet : CarriesBoth(e) =>
         /\ Flattened(e)
         /\ MatchId(orig[e].clip[1])[1] \in DOMAIN elementMap
         /\ \A g \in GeneratedChildren(svgElement, e) :
              svgElement[g].d =
                Attr(PathData(Intersect(
                  PaperPath(JoinD(ContentData(e))),
                  PaperPath(elementMap[MatchId(orig[e].clip[1])[1]].data))))

C15_Witness ==
  /\ GeneratedKept
  /\ \E e1 \in ClipElementSet : \E e2 \in ClipElementSet :
       /\ CarriesClipPathOnly(e1)
       /\ CarriesMaskOnly(e2)
       /\ orig[e1].clip = orig[e2].mask
       /\ SameContent(e1, e2)
       /\ Flattened(e2)
       /\ \E g \in GeneratedChildren(svgElement, e2) :
            svgElement[g].d \notin {Absent, Attr(<<>>)}

\* ------------------------------------------------------------------------
\* C16
\* ------------------------------------------------------------------------
\* Geometry of the authored content of e and of the clip definition e names.
ContentGeometry(e) == PaperPath(JoinD(ContentData(e)))
ClipGeometry(e) == PaperPath(elementMap[RefId(orig[e])[1]].data)

\* The second forEach has finished position k of clipPathElements.
Processed2(k) == GeneratedKept \/ (pc = "pass2" /\ k < idx)

DisjointGeometry(e) ==
  /\ ContentGeometry(e) # {}
  /\ ClipGeometry(e) # {}
  /\ \A c \in ContentGeometry(e) : c \notin ClipGeometry(e)

\* C16: the second pass never raises, and an element whose content geometry
\* and clip geometry have no point in common has, once the second pass has
\* handled it, exactly one generated path, whose path data has no subpath.
C16_DisjointGivesOneEmptyPath ==
  /\ pc = "threw" => error # 66
  /\ \A k \in 1..Len(clipPathElements) :
       LET e == clipPathElements[k]
       IN (Processed2(k) /\ DisjointGeometry(e)) =>
            /\ Cardinality(GeneratedChildren(svgElement, e)) = 1
            /\ \A g \in GeneratedChildren(svgElement, e) :
                 svgElement[g].d = Attr(<<>>)

C16_Witness ==
  /\ pc = "pass2"
  /\ \E k \in 1..Len(clipPathElements) :
       /\ k < idx
       /\ DisjointGeometry(clipPathElements[k])
       /\ \E g \in GeneratedChildren(svgElement, clipPathElements[k]) :
            svgElement[g].d = Attr(<<>>)

\* ------------------------------------------------------------------------
\* C17
\* ------------------------------------------------------------------------
\* The path data the second pass wrote on the generated paths of e.
GeneratedData(e) ==
  {svgElement[g].d : g \in GeneratedChildren(svgElement, e)}

GeneratedGeometry(e) ==
  {PaperPath(svgElement[g].d[1]) : g \in GeneratedChildren(svgElement, e)}

InInvocation == pc \in {"pass1", "pass2", "cleanup", "defs", "sentinel"}

\* The geometry the first pass built for id, from the d attributes it joined.
BuiltGeometry(id) == PaperPath(JoinD(GetElementById(id).ds))

ReadInThisInvocation ==
  /\ pc \in {"pass2", "cleanup", "defs", "sentinel"}
  /\ lastRead.reader = invocation
  /\ lastRead.writer = invocation

InCall == pc = "idle" \/ InInvocation

\* C20: no step of clipSVGPaths, from the call to its return or its raise,
\* changes the tree it was given: elements, attributes and child order of the
\* original are after the step what they were before it.
C20_OriginalUnchanged ==
  [][InCall => orig' = orig]_vars

C20_Witness ==
  /\ pc = "done"
  /\ Len(svgElement) > Len(orig)
  /\ \E n \in 1..Len(orig) :
       orig[n].clip # Absent /\ svgElement[n].clip = Absent
  /\ \E n \in 1..Len(orig) :
       orig[n].tag = "path" /\ orig[n].parent # 0 /\ svgElement[n].parent = 0
  /\ \E n \in 1..Len(orig) :
       orig[n].tag = "defs" /\ svgElement[n].parent = 0

\* ------------------------------------------------------------------------
\* C21
\* ------------------------------------------------------------------------
\* C21: between the start of the first pass and the end of the cleanup every
\* step is a step of clipSVGPaths itself: no handler of the page runs, so the
\* live document is not replaced and the call is not started again while the
\* clone and the cache are half-way.
C21_NoHandlerDuringInvocation ==
  [][InInvocation =>
       /\ page' = page
       /\ orig' = orig
       /\ invocation' = invocation
       /\ pc' # "idle"]_vars

C21_Witness ==
  /\ pc = "pass2"
  /\ invocation < MaxInvocations
  /\ 1 < idx
  /\ idx <= Len(clipPathElements)
  /\ GeneratedChildren(svgElement, clipPathElements[1]) # {}
  /\ GeneratedChildren(svgElement, clipPathElements[idx]) = {}

\* ------------------------------------------------------------------------
\* C22
\* ------------------------------------------------------------------------
Rewritten(e) ==
  /\ Flattened(e)
  /\ Cardinality(GeneratedChildren(svgElement, e)) = 1

\* Authored paths inside a clip-bearing element, and those detached so far.
OriginalsInside(e) ==
  {n \in 1..Len(orig) : orig[n].tag = "path" /\ e \in Ancestors(orig, n)}
Detached(n) == orig[n].parent # 0 /\ svgElement[n].parent = 0

SomeRewritten == \E e \in ClipElementSet : GeneratedChildren(svgElement, e) # {}
SomeOriginalRemoved ==
  \E e \in ClipElementSet : \E n \in OriginalsInside(e) : Detached(n)
DefsRemoved == \E n \in AuthoredDefs : Detached(n)
SomeBlankRemoved == \E n \in PathsOutsideClipElements : Detached(n)

\* C22: within one invocation, by what the clone shows: once an element is
\* rewritten every referenced id has its cache entry; once an original path
\* is removed every clip-bearing element has been rewritten, and when the
\* second pass ends each of them holds its originals and its generated child;
\* once <defs> is removed no original path is left inside a clip-bearing
\* element; once a sentinel-fill path is removed the first <defs> is gone.
C22_StepsOrdered ==
  pc # "idle" =>
    /\ SomeRewritten =>
         \A e \in ClipElementSet :
           /\ RefId(orig[e]) # <<>>
           /\ RefId(orig[e])[1] \in DOMAIN elementMap
    /\ SomeOriginalRemoved =>
         /\ \A e \in ClipElementSet : Flattened(e)
         /\ Len(svgElement) = Len(orig) + Cardinality(ClipElementSet)
    /\ JustAfterPass2 =>
         \A e \in ClipElementSet :
           /\ Rewritten(e)
           /\ \A n \in OriginalsInside(e) : ~Detached(n)
    /\ DefsRemoved =>
         \A e \in ClipElementSet : \A n \in OriginalsInside(e) :
           n \notin Descendants(svgElement, e)
    /\ SomeBlankRemoved =>
         (AuthoredDefs # {} => Detached(Min(AuthoredDefs)))

C22_Witness ==
  /\ pc = "done"
  /\ SomeOriginalRemoved
  /\ DefsRemoved
  /\ SomeBlankRemoved

\* ------------------------------------------------------------------------
\* C27
\* ------------------------------------------------------------------------
\* The d attributes of the paths of the definition that carries id in the
\* tree given to clipSVGPaths; none when the tree has no such element.
OwnDefinitionData(id) ==
  IF TreeHits(id) = {} THEN <<>>
  ELSE LET paths == PathsIn(orig, Min(TreeHits(id)))
       IN [k \in 1..Len(paths) |-> orig[paths[k]].d]

\* C27: every clip definition is resolved among the elements of the tree
\* given to clipSVGPaths: the geometry cached under an id is that of the
\* tree's own element with that id, whatever the host page holds.
C27_ResolvedInOwnTree ==
  InInvocation =>
    \A id \in DOMAIN elementMap :
      PaperPath(elementMap[id].data) = PaperPath(JoinD(OwnDefinitionData(id)))

\* ------------------------------------------------------------------------
\* C28
\* ------------------------------------------------------------------------
\* The paths the second pass appended: the elements the clone has beyond the
\* authored ones.
GeneratedPaths == (Len(orig) + 1)..Len(svgElement)

\* C28: every generated path the second pass appended is still attached to
\* the document clipSVGPaths returns.
C28_GeneratedPathsKept ==
  pc = "done" => \A g \in GeneratedPaths : g \in Live(svgElement)

\* ------------------------------------------------------------------------
\* C29
\* ------------------------------------------------------------------------
\* The geometry of the authored paths of a that are not inside b.
OwnGeometry(a, b) ==
  UNION {PaperPath(JoinD(<<orig[n].d>>)) :
           n \in OriginalsInside(a) \ OriginalsInside(b)}

\* The generated paths below a: its own and those of the elements inside it.
GeneratedBelow(a) ==
  {g \in GeneratedPaths :
     svgElement[g].parent = a \/ a \in Ancestors(orig, svgElement[g].parent)}

\* C29: when clip-bearing element b is inside clip-bearing element a, what a
\* generated path below a shows of b's content lies inside both a's clip and
\* b's clip.
C29_NestedClipsCompose ==
  GeneratedKept =>
    \A a \in ClipElementSet : \A b \in ClipElementSet :
      a \in Ancestors(orig, b) =>
        \A g \in GeneratedBelow(a) :
          (PaperPath(svgElement[g].d[1])
             \cap (ContentGeometry(b) \ OwnGeometry(a, b)))
            \subseteq (ClipGeometry(a) \cap ClipGeometry(b))

\* ------------------------------------------------------------------------
\* C23
\* ------------------------------------------------------------------------
Densities == {"density_c", "density_m", "density_y", "density_k"}
Divisors == {"divisor_c", "divisor_m", "divisor_y", "divisor_k"}

\* The requests on their way to the backend.
InFlight == {k \in 1..Len(tasks) : tasks[k].at = "backend"}

\* Every density a slider offers gives a divisor in 10..200 that neither
\* `|| 50` nor `|| 25` replaces.
EveryDensityKept ==
  \A field \in Densities : \A density \in SliderRange(field) :
    /\ Divisor(density) \in 10..200
    /\ OrDefault(Divisor(density), 50) = Divisor(density)
    /\ OrDefault(Divisor(density), 25) = Divisor(density)

\* The form of a request made with the default parameters.
DefaultDivisorsAsDocumented ==
  LET form == FormData(DefaultFile, RequestParams(DefaultParams))
  IN <<form.divisor_c, form.divisor_m, form.divisor_y, form.divisor_k>>
       = <<50, 50, 50, 25>>

\* C23: every density of the slider range 10..200 gives a divisor 210 - density
\* in the documented range 10..200, which the client's `|| default` leaves as
\* it is; the default densities 160, 160, 160, 185 give the documented
\* divisors 50, 50, 50, 25; and every request in flight carries the divisors
\* of its params unreplaced.
C23_DivisorsInRange ==
  /\ EveryDensityKept
  /\ DefaultDivisorsAsDocumented
  /\ \A k \in InFlight : \A field \in Divisors :
       /\ tasks[k].form[1][field] = tasks[k].params[1][field]
       /\ tasks[k].form[1][field] \in 10..200

\* A request in flight after the c density was moved to its maximum.
C23_Witness ==
  \E k \in InFlight :
    /\ cmykParams.density_c = 200
    /\ tasks[k].params[1].divisor_c = Divisor(200)
    /\ tasks[k].form[1].divisor_c = 10

\* ------------------------------------------------------------------------
\* C24
\* ------------------------------------------------------------------------
PleaseUpload == Status(<<"Please upload an image first">>, "error")

\* This step starts an operation on behalf of the Reprocess button.
StartedByReprocess ==
  /\ Len(tasks') = Len(tasks) + 1
  /\ tasks'[Len(tasks')].by = "reprocess"

\* The current image is named urn.png and the nine parameters are the
\* defaults.
UrnWithDefaults ==
  /\ currentImageFile # Absent
  /\ currentImageFile[1].name = "urn.png"
  /\ cmykParams = DefaultParams

RequestFails(k) ==
  /\ tasks[k].at = "backend"
  /\ tasks'[k].at = "settled"
  /\ tasks'[k].outcome \in {"http", "network"}

\* In this step the request of task k ends with a successful response.
RequestSucceeds(k) ==
  /\ tasks[k].at \in {"cache", "backend"}
  /\ tasks'[k].at = "settled"
  /\ tasks'[k].outcome = "ok"

\* The body of the successful response to the request of task k.
BodyFor(k) ==
  IF tasks[k].at = "cache" THEN CachedBody
  ELSE BackendBody(tasks[k].form[1])

HttpFailures == {f \in Failures : f.kind = "http"}
DetailMessages ==
  {<<f.detail[1]>> : f \in {g \in HttpFailures : g.detail # Absent}}
HttpErrorMessages == {<<"HTTP error ", f.status>> : f \in HttpFailures}
FetchErrorMessages == {<<"Failed to fetch">>}

\* The status is 'Error: ' followed by one of the messages.
ShowsError(status, messages) ==
  /\ status.type = "error"
  /\ Len(status.message) > 1
  /\ Head(status.message) = "Error: "
  /\ Tail(status.message) \in messages

\* window.cmykData is assigned only the body of a successful response.
AssignedOnSuccessOnly ==
  cmykData' # cmykData =>
    \E k \in 1..Len(tasks) :
      /\ RequestSucceeds(k)
      /\ cmykData' = Attr(BodyFor(k))

\* C25 as stated: when a processing request fails, cmykData and the rendered
\* layers are as before and the status shows 'Error: ' followed by the
\* response's detail or 'HTTP error <status>'; cmykData is assigned only the
\* body of a successful response.
C25_FailureKeepsData ==
  [][/\ \A k \in 1..Len(tasks) :
          RequestFails(k) =>
            /\ cmykData' = cmykData
            /\ rendered' = rendered
            /\ ShowsError(statusMessage',
                          DetailMessages \cup HttpErrorMessages)
     /\ AssignedOnSuccessOnly]_vars

\* C25, amended: as above, but the message is the response's detail or
\* 'HTTP error <status>' for a non-OK response and the message of the error
\* fetch raised for a network error.
C25_FailureKeepsDataFetchMessage ==
  [][/\ \A k \in 1..Len(tasks) :
          RequestFails(k) =>
            /\ cmykData' = cmykData
            /\ rendered' = rendered
            /\ ShowsError(statusMessage',
                          IF tasks'[k].outcome = "http"
                            THEN DetailMessages \cup HttpErrorMessages
                          ELSE FetchErrorMessages)
     /\ AssignedOnSuccessOnly]_vars

\* A request has failed on the network after an earlier one had succeeded:
\* the earlier result is still held and drawn.
C25_Witness ==
  /\ ShowsError(statusMessage, FetchErrorMessages)
  /\ cmykData # Absent
  /\ rendered = cmykData
  /\ \E k \in 1..Len(tasks) : tasks[k].outcome = "network"
  /\ \E k \in 1..Len(tasks) : tasks[k].outcome = "ok"

\* ------------------------------------------------------------------------
\* C26
\* ------------------------------------------------------------------------
Thresholds == {"threshold_c", "threshold_m", "threshold_y", "threshold_k"}

\* The params of two requests differ in a threshold and in nothing else.
DifferOnlyInThreshold(p, q) ==
  /\ \E t \in Thresholds : p[t] # q[t]
  /\ \A f \in DOMAIN p \ Thresholds : p[f] = q[f]

\* C26: every request in flight carries the four thresholds of its params,
\* and two requests in flight for the same image whose params differ only in
\* a threshold are different requests.
C26_ThresholdsTransmitted ==
  /\ \A k \in InFlight : \A t \in Thresholds :
       /\ t \in DOMAIN tasks[k].form[1]
       /\ tasks[k].form[1][t] = tasks[k].params[1][t]
  /\ \A j, k \in InFlight :
       (/\ tasks[j].file = tasks[k].file
        /\ DifferOnlyInThreshold(tasks[j].params[1], tasks[k].params[1]))
         => tasks[j].form # tasks[k].form

\* ------------------------------------------------------------------------
\* C30
\* ------------------------------------------------------------------------
\* No operation is suspended at an await.
AllSettled == \A k \in 1..Len(tasks) : tasks[k].at = "settled"

\* C30: once every operation has settled, window.currentImageFile is the file
\* of the latest upload (when there was one), and when the request issued
\* last ended with a successful response, window.cmykData and the rendered
\* layers are the body of that response.
C30_LatestRequestWins ==
  AllSettled =>
    /\ lastSelected # Absent => currentImageFile = lastSelected
    /\ latest.outcome = "ok" =>
         /\ cmykData = latest.body
         /\ rendered = latest.body

====
